---- MODULE Spec2Model ----
(***************************************************************************)
(* Model of refactor_solid.py: three validation rules (SksLimitRule,       *)
(* PrerequisiteRule, JadwalBentrokRule) and the RegistrationService that   *)
(* runs an ordered list of them over one student record, stopping at the   *)
(* first rule that returns False.                                          *)
(*                                                                         *)
(* Two specifications share the variables:                                 *)
(*   Spec     - RegistrationService.validate, one loop iteration per step, *)
(*              over every rule list of up to MaxRules rules and the       *)
(*              records of ServiceRecords (student_data and its variants); *)
(*   SpecRule - one rule's validate called directly, over every record of  *)
(*              Records (all field combinations within the bounds).        *)
(* A record is a dict; in both specifications it may lack one of its keys, *)
(* and reading that key raises KeyError.                                   *)
(***************************************************************************)
EXTENDS Integers, Sequences, FiniteSets, TLC

VARIABLES
    data,     \* the dict passed to validate
    rules,    \* RegistrationService.rules (SpecRule: the one rule under call)
    pc,       \* position of the call: "idle", "loop", "done", "raised";
              \* SpecRule: "rule", "returned", "raised"
    i,        \* position of the for loop of RegistrationService.validate
    calls,    \* rule.validate invocations of the current call, in order
    log,      \* LOGGER records emitted by the current call, in order
    result,   \* the boolean returned (meaningful when pc is "done")
    before,   \* data and rules as they were when the current call started
    history   \* outcomes of the calls completed before the current one

vars == <<data, rules, pc, i, calls, log, result, before, history>>

----------------------------------------------------------------------------
(* Bounds of the model *)

MaxRules == 3
MaxCalls == 2
MaxCourses == 2
MaxTaken == 2

----------------------------------------------------------------------------
(* Values the inputs are drawn from *)

Courses == {"Algoritma", "Struktur Data"}
Days == {"Senin", "Selasa"}
Times == {"08:00", "10:00"}
SksValues == {20, 24, 25, 30}
MaxSksValues == {20, 24}
Keys == {"sks", "prasyarat", "sudah_lulus", "jadwal", "jadwal_terambil"}

Slots == [hari : Days, jam : Times]

SeqsUpTo(S, n) == UNION {[1..k -> S] : k \in 0..n}

Range(s) == {s[k] : k \in 1..Len(s)}

\* the lists that name each element of S at most once
DistinctSeqs(S) ==
    {s \in SeqsUpTo(S, Cardinality(S)) :
        \A a, b \in 1..Len(s) : a # b => s[a] # s[b]}

\* a dict without key k (data[k] then raises KeyError)
Drop(d, k) == [x \in (DOMAIN d) \ {k} |-> d[x]]

WithMissingKey(R) == R \cup {Drop(d, k) : d \in R, k \in Keys}

student_data ==
    [sks |-> 20,
     prasyarat |-> <<"Algoritma", "Struktur Data">>,
     sudah_lulus |-> <<"Algoritma">>,
     jadwal |-> [hari |-> "Senin", jam |-> "08:00"],
     jadwal_terambil |-> <<[hari |-> "Senin", jam |-> "08:00"]>>]

\* student_data and the records that differ from it in the field one rule reads
ServiceRecords ==
    WithMissingKey(
        {[student_data EXCEPT !.sks = s, !.sudah_lulus = l, !.jadwal_terambil = t] :
            s \in {20, 30},
            l \in {<<"Algoritma">>, <<"Struktur Data", "Algoritma">>},
            t \in {<<>>,
                   <<[hari |-> "Senin", jam |-> "08:00"]>>,
                   <<[hari |-> "Senin", jam |-> "10:00"],
                     [hari |-> "Selasa", jam |-> "08:00"]>>}})

Records ==
    WithMissingKey(
        [sks : SksValues,
         prasyarat : SeqsUpTo(Courses, MaxCourses),
         sudah_lulus : DistinctSeqs(Courses),
         jadwal : Slots,
         jadwal_terambil : SeqsUpTo(Slots, MaxTaken)])

SksLimitRule(max_sks) == [kind |-> "SksLimitRule", max_sks |-> max_sks]
PrerequisiteRule == [kind |-> "PrerequisiteRule"]
JadwalBentrokRule == [kind |-> "JadwalBentrokRule"]

RuleSet == {SksLimitRule(m) : m \in MaxSksValues} \cup {PrerequisiteRule, JadwalBentrokRule}

main_rules == <<SksLimitRule(24), PrerequisiteRule, JadwalBentrokRule>>

----------------------------------------------------------------------------
(* The rules: what validate(data) returns, raises and logs *)

LogRecord(level, msg, args) == [level |-> level, msg |-> msg, args |-> args]

Returns(b, l) == [exc |-> "none", ret |-> b, log |-> l]
Raises(e) == [exc |-> e, ret |-> FALSE, log |-> <<>>]

\* variant: the limit itself is rejected (< for <=)
SksLimitRule_validate_strict(rule, d) ==
    IF "sks" \notin DOMAIN d THEN Raises("KeyError")
    ELSE IF d.sks < rule.max_sks
    THEN Returns(TRUE, <<LogRecord("INFO", "SKS %s tidak melebihi batas %s.",
                                   <<d.sks, rule.max_sks>>)>>)
    ELSE Returns(FALSE, <<LogRecord("ERROR", "SKS %s melebihi batas maksimum %s.",
                                    <<d.sks, rule.max_sks>>)>>)

SksLimitRule_validate(rule, d) ==
    IF "sks" \notin DOMAIN d THEN Raises("KeyError")
    ELSE IF d.sks <= rule.max_sks
    THEN Returns(TRUE, <<LogRecord("INFO", "SKS %s tidak melebihi batas %s.",
                                   <<d.sks, rule.max_sks>>)>>)
    ELSE Returns(FALSE, <<LogRecord("ERROR", "SKS %s melebihi batas maksimum %s.",
                                    <<d.sks, rule.max_sks>>)>>)

\* course not in data["sudah_lulus"]
NotIn(course, l) == \A k \in 1..Len(l) : l[k] # course

\* variant: one completed prerequisite is enough (any for all)
PrerequisiteRule_validate_any(d) ==
    IF "prasyarat" \notin DOMAIN d THEN Raises("KeyError")
    ELSE IF d.prasyarat # <<>> /\ "sudah_lulus" \notin DOMAIN d THEN Raises("KeyError")
    ELSE LET missing == SelectSeq(d.prasyarat, LAMBDA course : NotIn(course, d.sudah_lulus))
         IN  IF Len(missing) < Len(d.prasyarat) \/ d.prasyarat = <<>>
             THEN Returns(TRUE, <<LogRecord("INFO", "Semua prasyarat telah terpenuhi.", <<>>)>>)
             ELSE Returns(FALSE, <<LogRecord("WARNING", "Prasyarat belum terpenuhi: %s",
                                             <<missing>>)>>)

\* variant: the first missing course only is looked for and reported
PrerequisiteRule_validate_first(d) ==
    IF "prasyarat" \notin DOMAIN d THEN Raises("KeyError")
    ELSE IF d.prasyarat # <<>> /\ "sudah_lulus" \notin DOMAIN d THEN Raises("KeyError")
    ELSE LET missing == SelectSeq(d.prasyarat, LAMBDA course : NotIn(course, d.sudah_lulus))
         IN  IF missing = <<>>
             THEN Returns(TRUE, <<LogRecord("INFO", "Semua prasyarat telah terpenuhi.", <<>>)>>)
             ELSE Returns(FALSE, <<LogRecord("WARNING", "Prasyarat belum terpenuhi: %s",
                                             <<SubSeq(missing, 1, 1)>>)>>)

PrerequisiteRule_validate(d) ==
    IF "prasyarat" \notin DOMAIN d THEN Raises("KeyError")
    ELSE IF d.prasyarat # <<>> /\ "sudah_lulus" \notin DOMAIN d THEN Raises("KeyError")
    ELSE LET missing == SelectSeq(d.prasyarat, LAMBDA course : NotIn(course, d.sudah_lulus))
         IN  IF missing = <<>>
             THEN Returns(TRUE, <<LogRecord("INFO", "Semua prasyarat telah terpenuhi.", <<>>)>>)
             ELSE Returns(FALSE, <<LogRecord("WARNING", "Prasyarat belum terpenuhi: %s",
                                             <<missing>>)>>)

\* variant: one equal field is a conflict (or for and)
RECURSIVE JadwalScan_either(_, _, _, _)
JadwalScan_either(terambil, hari, jam, k) ==
    IF k > Len(terambil)
    THEN Returns(TRUE, <<LogRecord("INFO", "Tidak ada bentrok jadwal.", <<>>)>>)
    ELSE IF terambil[k].hari = hari \/ terambil[k].jam = jam
    THEN Returns(FALSE, <<LogRecord("ERROR", "Jadwal bentrok dengan mata kuliah lain!", <<>>)>>)
    ELSE JadwalScan_either(terambil, hari, jam, k + 1)

RECURSIVE JadwalScan(_, _, _, _)
JadwalScan(terambil, hari, jam, k) ==
    IF k > Len(terambil)
    THEN Returns(TRUE, <<LogRecord("INFO", "Tidak ada bentrok jadwal.", <<>>)>>)
    ELSE IF terambil[k].hari = hari /\ terambil[k].jam = jam
    THEN Returns(FALSE, <<LogRecord("ERROR", "Jadwal bentrok dengan mata kuliah lain!", <<>>)>>)
    ELSE JadwalScan(terambil, hari, jam, k + 1)

JadwalBentrokRule_validate(d) ==
    IF "jadwal" \notin DOMAIN d THEN Raises("KeyError")
    ELSE IF "jadwal_terambil" \notin DOMAIN d THEN Raises("KeyError")
    ELSE JadwalScan(d.jadwal_terambil, d.jadwal.hari, d.jadwal.jam, 1)

\* rule.validate(data), dispatched on the rule's class
RuleValidate(rule, d) ==
    CASE rule.kind = "SksLimitRule" -> SksLimitRule_validate(rule, d)
      [] rule.kind = "PrerequisiteRule" -> PrerequisiteRule_validate(d)
      [] rule.kind = "JadwalBentrokRule" -> JadwalBentrokRule_validate(d)

Invocation(idx, o) == [idx |-> idx, exc |-> o.exc, ret |-> o.ret]

----------------------------------------------------------------------------
(* RegistrationService.validate *)

Banner == LogRecord("INFO", "=== Menjalankan Validasi Registrasi ===", <<>>)
Gagal == LogRecord("ERROR", "Registrasi gagal.", <<>>)
Berhasil == LogRecord("INFO", "Registrasi berhasil.", <<>>)

Outcome == [pc |-> pc, result |-> result, calls |-> calls]

Init ==
    /\ data \in ServiceRecords
    /\ rules \in SeqsUpTo(RuleSet, MaxRules)
    /\ pc = "idle"
    /\ i = 0
    /\ calls = <<>>
    /\ log = <<>>
    /\ result = FALSE
    /\ before = [data |-> data, rules |-> rules]
    /\ history = <<>>

\* the caller calls service.validate(data): banner, then the for loop starts
Begin ==
    /\ pc \in {"idle", "done", "raised"}
    /\ Len(history) + 1 < MaxCalls \/ pc = "idle"
    /\ history' = IF pc = "idle" THEN history ELSE Append(history, Outcome)
    /\ before' = [data |-> data, rules |-> rules]
    /\ log' = <<Banner>>
    /\ calls' = <<>>
    /\ i' = 1
    /\ pc' = "loop"
    /\ UNCHANGED <<data, rules, result>>

\* variant: SksLimitRule deducts the credits it admits from its max_sks
RulePasses_deducting ==
    /\ pc = "loop"
    /\ i <= Len(rules)
    /\ LET o == RuleValidate(rules[i], data)
       IN  /\ o.exc = "none"
           /\ o.ret
           /\ calls' = Append(calls, Invocation(i, o))
           /\ log' = log \o o.log
    /\ rules' = IF rules[i].kind = "SksLimitRule"
                THEN [rules EXCEPT ![i].max_sks = @ - data.sks]
                ELSE rules
    /\ i' = i + 1
    /\ UNCHANGED <<data, pc, result, before, history>>

\* variant: PrerequisiteRule consumes the prerequisites it has checked
RulePasses_consuming ==
    /\ pc = "loop"
    /\ i <= Len(rules)
    /\ LET o == RuleValidate(rules[i], data)
       IN  /\ o.exc = "none"
           /\ o.ret
           /\ calls' = Append(calls, Invocation(i, o))
           /\ log' = log \o o.log
    /\ data' = IF rules[i].kind = "PrerequisiteRule"
               THEN [data EXCEPT !.prasyarat = <<>>]
               ELSE data
    /\ i' = i + 1
    /\ UNCHANGED <<rules, pc, result, before, history>>

\* one iteration: rule.validate(data) returns True, the loop goes on
RulePasses ==
    /\ pc = "loop"
    /\ i <= Len(rules)
    /\ LET o == RuleValidate(rules[i], data)
       IN  /\ o.exc = "none"
           /\ o.ret
           /\ calls' = Append(calls, Invocation(i, o))
           /\ log' = log \o o.log
    /\ i' = i + 1
    /\ UNCHANGED <<data, rules, pc, result, before, history>>

\* variant: the failure is logged but the return is missing, the loop goes on
RuleFails_continuing ==
    /\ pc = "loop"
    /\ i <= Len(rules)
    /\ LET o == RuleValidate(rules[i], data)
       IN  /\ o.exc = "none"
           /\ ~o.ret
           /\ calls' = Append(calls, Invocation(i, o))
           /\ log' = (log \o o.log) \o <<Gagal>>
    /\ i' = i + 1
    /\ UNCHANGED <<data, rules, pc, result, before, history>>

\* the invocations of rules[from..], each one made whatever the others return
RECURSIVE InvokeAll(_, _, _)
InvokeAll(rs, d, from) ==
    IF from > Len(rs) THEN <<>>
    ELSE <<Invocation(from, RuleValidate(rs[from], d))>> \o InvokeAll(rs, d, from + 1)

\* variant: every rule is invoked before the results are looked at (all([...]))
RuleFails_eager ==
    /\ pc = "loop"
    /\ i <= Len(rules)
    /\ LET o == RuleValidate(rules[i], data)
       IN  /\ o.exc = "none"
           /\ ~o.ret
           /\ calls' = calls \o InvokeAll(rules, data, i)
           /\ log' = (log \o o.log) \o <<Gagal>>
    /\ result' = FALSE
    /\ pc' = "done"
    /\ UNCHANGED <<data, rules, i, before, history>>

\* variant: the failure is returned without LOGGER.error
RuleFails_silent ==
    /\ pc = "loop"
    /\ i <= Len(rules)
    /\ LET o == RuleValidate(rules[i], data)
       IN  /\ o.exc = "none"
           /\ ~o.ret
           /\ calls' = Append(calls, Invocation(i, o))
           /\ log' = log \o o.log
    /\ result' = FALSE
    /\ pc' = "done"
    /\ UNCHANGED <<data, rules, i, before, history>>

\* one iteration: rule.validate(data) returns False, validate returns False
RuleFails ==
    /\ pc = "loop"
    /\ i <= Len(rules)
    /\ LET o == RuleValidate(rules[i], data)
       IN  /\ o.exc = "none"
           /\ ~o.ret
           /\ calls' = Append(calls, Invocation(i, o))
           /\ log' = (log \o o.log) \o <<Gagal>>
    /\ result' = FALSE
    /\ pc' = "done"
    /\ UNCHANGED <<data, rules, i, before, history>>

\* variant: the exception is caught and reported as a failed registration
RuleRaises_caught ==
    /\ pc = "loop"
    /\ i <= Len(rules)
    /\ LET o == RuleValidate(rules[i], data)
       IN  /\ o.exc # "none"
           /\ calls' = Append(calls, Invocation(i, o))
           /\ log' = (log \o o.log) \o <<Gagal>>
    /\ result' = FALSE
    /\ pc' = "done"
    /\ UNCHANGED <<data, rules, i, before, history>>

\* one iteration: rule.validate(data) raises, nothing catches it
RuleRaises ==
    /\ pc = "loop"
    /\ i <= Len(rules)
    /\ LET o == RuleValidate(rules[i], data)
       IN  /\ o.exc # "none"
           /\ calls' = Append(calls, Invocation(i, o))
           /\ log' = log \o o.log
    /\ pc' = "raised"
    /\ UNCHANGED <<data, rules, i, result, before, history>>

\* the for loop is exhausted: validate returns True
Finish ==
    /\ pc = "loop"
    /\ i > Len(rules)
    /\ log' = Append(log, Berhasil)
    /\ result' = TRUE
    /\ pc' = "done"
    /\ UNCHANGED <<data, rules, i, calls, before, history>>

Next == Begin \/ RulePasses \/ RuleFails \/ RuleRaises \/ Finish

Spec == Init /\ [][Next]_vars

----------------------------------------------------------------------------
(* One rule's validate, called directly *)

InitRule ==
    /\ data \in Records
    /\ rules \in {<<r>> : r \in RuleSet}
    /\ pc = "rule"
    /\ i = 1
    /\ calls = <<>>
    /\ log = <<>>
    /\ result = FALSE
    /\ before = [data |-> data, rules |-> rules]
    /\ history = <<>>

CallRule(kind) ==
    /\ pc = "rule"
    /\ rules[1].kind = kind
    /\ LET o == RuleValidate(rules[1], data)
       IN  /\ calls' = <<Invocation(1, o)>>
           /\ log' = o.log
           /\ result' = o.ret
           /\ pc' = IF o.exc = "none" THEN "returned" ELSE "raised"
    /\ UNCHANGED <<data, rules, i, before, history>>

CallSksLimitRule == CallRule("SksLimitRule")
CallPrerequisiteRule == CallRule("PrerequisiteRule")
CallJadwalBentrokRule == CallRule("JadwalBentrokRule")

NextRule == CallSksLimitRule \/ CallPrerequisiteRule \/ CallJadwalBentrokRule

SpecRule == InitRule /\ [][NextRule]_vars

----------------------------------------------------------------------------
(* Vocabulary of the properties *)

WellFormed(d) == DOMAIN d = Keys

\* what rules[k].validate(data) does on the record, invoked or not
RuleTrue(k) == LET o == RuleValidate(rules[k], data) IN o.exc = "none" /\ o.ret
RuleFalse(k) == LET o == RuleValidate(rules[k], data) IN o.exc = "none" /\ ~o.ret

AllRulesTrue == \A k \in 1..Len(rules) : RuleTrue(k)
SomeRuleFalse == \E k \in 1..Len(rules) : RuleFalse(k)

FirstFalse == CHOOSE k \in 1..Len(rules) : RuleFalse(k) /\ \A j \in 1..(k - 1) : ~RuleFalse(j)

IsTerminal(e) == e.msg \in {Gagal.msg, Berhasil.msg}
TerminalCount == Cardinality({k \in 1..Len(log) : IsTerminal(log[k])})
BannerCount == Cardinality({k \in 1..Len(log) : log[k].msg = Banner.msg})

Completed(d) == IF "sudah_lulus" \in DOMAIN d THEN d.sudah_lulus ELSE <<>>

SlotMatches(item, d) == item.hari = d.jadwal.hari /\ item.jam = d.jadwal.jam

----------------------------------------------------------------------------
(* Properties *)

\* C1: when RegistrationService.validate returns, it returns True iff every rule
\* of the list returns True on the record (so True for the empty list), and False
\* iff at least one rule returns False; on a record with all its keys it always
\* returns.
C1_ResultIsConjunction ==
    /\ pc = "done" => /\ result <=> AllRulesTrue
                      /\ ~result <=> SomeRuleFalse
    /\ WellFormed(data) => pc # "raised"

C1_Witness ==
    /\ pc = "done"
    /\ ~result
    /\ Len(rules) = 3
    /\ RuleTrue(1) /\ RuleTrue(2) /\ RuleFalse(3)

\* C2: within one call the rules are invoked in list order, each position at most
\* once; every invocation but the last returned True; when the call returns the
\* invoked rules are the prefix ending at the first rule that returns False, or
\* the whole list when none does.
C2_InvokedPrefix ==
    /\ pc \in {"loop", "done", "raised"} =>
          /\ Len(calls) <= Len(rules)
          /\ \A k \in 1..Len(calls) :
                /\ calls[k].idx = k
                /\ calls[k] = Invocation(k, RuleValidate(rules[k], data))
          /\ \A k \in 1..(Len(calls) - 1) : calls[k].exc = "none" /\ calls[k].ret
    /\ pc = "loop" => Len(calls) = i - 1
    /\ pc = "done" /\ ~result => Len(calls) = FirstFalse
    /\ pc = "done" /\ result => Len(calls) = Len(rules)

C2_Witness ==
    /\ pc = "done"
    /\ ~result
    /\ Len(rules) = 3
    /\ Len(calls) = 1
    /\ RuleFalse(2)

\* C3: SksLimitRule.validate returns True iff data['sks'] <= max_sks, the limit
\* itself included, and False iff it is greater; 20 against 24 passes and 30
\* against 24 fails.
C3_SksLimit ==
    (rules[1].kind = "SksLimitRule" /\ pc \in {"returned", "raised"}) =>
        /\ WellFormed(data) => pc = "returned"
        /\ pc = "returned" =>
              /\ calls[1].ret <=> data.sks <= rules[1].max_sks
              /\ ~calls[1].ret <=> data.sks > rules[1].max_sks
              /\ (data.sks = 20 /\ rules[1].max_sks = 24) => calls[1].ret
              /\ (data.sks = 30 /\ rules[1].max_sks = 24) => ~calls[1].ret

C3_Witness ==
    /\ pc = "returned"
    /\ rules[1] = SksLimitRule(24)
    /\ data.sks = 24
    /\ calls[1].ret

\* C4: PrerequisiteRule.validate returns True iff every prerequisite is among the
\* completed courses; otherwise it returns False and the missing list it logs
\* is, as a set, prasyarat minus sudah_lulus; an empty prasyarat always passes.
C4_Prerequisite ==
    (rules[1].kind = "PrerequisiteRule" /\ pc \in {"returned", "raised"}) =>
        /\ WellFormed(data) => pc = "returned"
        /\ pc = "returned" =>
              /\ calls[1].ret <=> Range(data.prasyarat) \subseteq Range(Completed(data))
              /\ ~calls[1].ret =>
                    /\ log[Len(log)].level = "WARNING"
                    /\ Range(log[Len(log)].args[1])
                         = Range(data.prasyarat) \ Range(Completed(data))
        /\ ("prasyarat" \in DOMAIN data /\ data.prasyarat = <<>>) =>
              pc = "returned" /\ calls[1].ret

C4_Witness ==
    /\ pc = "returned"
    /\ rules[1].kind = "PrerequisiteRule"
    /\ ~calls[1].ret
    /\ Len(data.prasyarat) = 2
    /\ Cardinality(Range(log[Len(log)].args[1])) = 2

\* C5: JadwalBentrokRule.validate returns False iff some entry of jadwal_terambil
\* has both the hari and the jam of the requested jadwal; an entry equal in one
\* field only is no conflict, and an empty jadwal_terambil always passes.
C5_JadwalBentrok ==
    (rules[1].kind = "JadwalBentrokRule" /\ pc \in {"returned", "raised"}) =>
        /\ WellFormed(data) => pc = "returned"
        /\ pc = "returned" =>
              /\ ~calls[1].ret <=>
                    \E k \in 1..Len(data.jadwal_terambil) :
                        SlotMatches(data.jadwal_terambil[k], data)
              /\ data.jadwal_terambil = <<>> => calls[1].ret

C5_Witness ==
    /\ pc = "returned"
    /\ rules[1].kind = "JadwalBentrokRule"
    /\ calls[1].ret
    /\ Len(data.jadwal_terambil) = 2
    /\ data.jadwal_terambil[1].hari = data.jadwal.hari
    /\ data.jadwal_terambil[1].jam # data.jadwal.jam
    /\ data.jadwal_terambil[2].hari # data.jadwal.hari
    /\ data.jadwal_terambil[2].jam = data.jadwal.jam

\* C6: the pipeline of __main__ on student_data returns False; SksLimitRule and
\* PrerequisiteRule are invoked once each, PrerequisiteRule returns False with
\* missing = ["Struktur Data"], and JadwalBentrokRule is never invoked although
\* the record's jadwal does conflict.
C6_SampleRun ==
    (data = student_data /\ rules = main_rules) =>
        /\ pc # "raised"
        /\ \A k \in 1..Len(calls) : calls[k].idx # 3
        /\ pc = "done" =>
              /\ ~result
              /\ calls = <<[idx |-> 1, exc |-> "none", ret |-> TRUE],
                           [idx |-> 2, exc |-> "none", ret |-> FALSE]>>
              /\ log[3].msg = "Prasyarat belum terpenuhi: %s"
              /\ log[3].args = << <<"Struktur Data">> >>
              /\ RuleFalse(3)

C6_Witness ==
    /\ data = student_data
    /\ rules = main_rules
    /\ pc = "done"
    /\ Len(calls) = 2

\* C7: a later call with the same record and rule list ends as the earlier one
\* did (same return or raise, same invocations), and validate leaves the rule
\* list, max_sks included, as it found it.
C7_Repeatable ==
    /\ rules = before.rules
    /\ (history # <<>> /\ pc \in {"done", "raised"}) => Outcome = history[Len(history)]

C7_Witness ==
    /\ history # <<>>
    /\ pc = "done"
    /\ result
    /\ \E k \in 1..Len(rules) : rules[k].kind = "SksLimitRule" /\ data.sks > 0

\* C8: the record is not written during a call: at every point of
\* RegistrationService.validate, after each rule's validate and at the return,
\* pass or fail, every field of data is what it was when the call started.
C8_RecordUnchanged ==
    pc \in {"loop", "done", "raised"} => data = before.data

C8_Witness ==
    /\ pc = "done"
    /\ result
    /\ Len(calls) = 3
    /\ {rules[k].kind : k \in 1..3} = {"SksLimitRule", "PrerequisiteRule", "JadwalBentrokRule"}
    /\ data.prasyarat # <<>>

\* C9: a rule that returns False makes validate return False, never raise; a
\* rule that raises ends the call without a return: it is the last rule
\* invoked, and neither 'Registrasi gagal.' nor 'Registrasi berhasil.' is logged.
C9_FailureVersusFault ==
    /\ \A k \in 1..Len(calls) :
          /\ (calls[k].exc = "none" /\ ~calls[k].ret) => (pc = "done" /\ ~result)
          /\ calls[k].exc # "none" => (pc = "raised" /\ k = Len(calls))
    /\ pc = "raised" =>
          /\ calls # <<>>
          /\ calls[Len(calls)].exc # "none"
          /\ TerminalCount = 0

C9_Witness ==
    /\ pc = "raised"
    /\ Len(calls) = 2
    /\ Len(rules) = 3
    /\ RuleFalse(3)

\* C10: the banner is the first record of a call's log and precedes every rule
\* invocation; while the loop runs no terminal message is logged; a call that
\* returns has logged exactly one terminal message, as its last record:
\* 'Registrasi gagal.' iff it returns False, 'Registrasi berhasil.' iff True. A
\* call on a record with all its keys never ends otherwise.
C10_LogFollowsOutcome ==
    /\ pc \in {"loop", "done", "raised"} =>
          /\ log[1] = Banner
          /\ BannerCount = 1
          /\ (pc = "loop" /\ calls = <<>>) => log = <<Banner>>
    /\ pc = "loop" => TerminalCount = 0
    /\ pc = "done" =>
          /\ TerminalCount = 1
          /\ log[Len(log)] = (IF result THEN Berhasil ELSE Gagal)
          /\ log[Len(log)].level = (IF result THEN "INFO" ELSE "ERROR")
    /\ WellFormed(data) => pc # "raised"

C10_Witness ==
    /\ pc = "done"
    /\ ~result
    /\ Len(log) = 4
    /\ log[4] = Gagal

====
